---- MODULE Spec2Model ----
(***************************************************************************)
(* Random mating in a population of diploid genomes (randomMating.py).     *)
(*                                                                         *)
(* A Gene is a sorted 2-tuple of integer alleles, a Genome a tuple of      *)
(* Genes (one per locus), and a Species a dict from Genome to an integer   *)
(* count.  A Python dict is modelled as the sequence of its <<key, value>> *)
(* items in insertion order, which is the order weighted_choice iterates   *)
(* them in.  Species.mate is modelled statement by statement: the copy,    *)
(* each of the two draws with its decrement, the mating with its increment *)
(* of the live dict, and the return.                                       *)
(***************************************************************************)
EXTENDS Integers, Sequences, FiniteSets

VARIABLES
    self,       \* the live Species: sequence of <<genome, count>> items
    s,          \* the working copy made by Species.mate
    pc,         \* "unconstructed", "idle", "loop", "drawn1", "drawn2"
    status,     \* outcome of the last call: "constructed", "running",
                \* "returned", or the name of the exception raised
    g1, g2,     \* the parents drawn in the current iteration (<<>>: unset)
    offspring,  \* the offspring of the last completed iteration (<<>>: unset)
    pre,        \* history: the live items when the current/last mate() began
    draws,      \* history: genome -> times drawn as a parent in this call
    pairs       \* history: pairs of parents drawn in this call

vars == <<self, s, pc, status, g1, g2, offspring, pre, draws, pairs>>

----------------------------------------------------------------------------
(* Bounds of the model *)

\* largest number of items of the dict handed to the constructor
MaxEntries == 2
\* the counts handed to the constructor add up to at most this many
\* individuals (in absolute value), and mate() is only started on a
\* population of at most this many
MaxPop == 4

\* founder counts; -1 is the negative count the constructor is handed
Counts == (0 - 1)..MaxPop

----------------------------------------------------------------------------
(* Gene *)

\* Gene.__new__: tuple(sorted(alleles))
Gene(a, b) == IF a <= b THEN <<a, b>> ELSE <<b, a>>

\* Gene.allele_count counting each distinct allele once: { k: 1 for k in self }
Gene_allele_count_distinct(g) == [k \in {g[1], g[2]} |-> 1]

\* Gene.allele_count: { k: self.count(k) for k in self }
Gene_allele_count(g) ==
    [k \in {g[1], g[2]} |-> Cardinality({i \in 1..2 : g[i] = k})]

\* the outcomes of the two random.choice calls of Gene.mate: a slot of self
\* and a slot of other
Picks == (1..2) \X (1..2)

\* Gene.mate taking both alleles from self:
\* Gene(random.choice(self), random.choice(self))
Gene_mate_selfed(gene, other, c) == Gene(gene[c[1]], gene[c[2]])

\* Gene.mate: Gene(random.choice(self), random.choice(other))
Gene_mate(gene, other, c) == Gene(gene[c[1]], other[c[2]])

----------------------------------------------------------------------------
(* Genome *)

\* Genome.__new__: one Gene(g[0], g[1]) per genotype, in order
Genome(genotypes) ==
    [i \in 1..Len(genotypes) |-> Gene(genotypes[i][1], genotypes[i][2])]

\* Genome.allele_count: [ g.allele_count() for g in self ]
Genome_allele_count(genome) ==
    [i \in 1..Len(genome) |-> Gene_allele_count(genome[i])]

\* zip(self, other): pairs up to the shorter length
zip(a, b) ==
    [i \in 1..(IF Len(a) <= Len(b) THEN Len(a) ELSE Len(b)) |-> <<a[i], b[i]>>]

\* the assert of Genome.mate: len(self) == len(other)
Genome_mate_asserts(genome, other) == Len(genome) = Len(other)

\* Genome.mate pairing the loci of self with those of other in reverse
\* order: zip(self, reversed(other))
Genome_mate_crossed(genome, other, ch) ==
    LET z == zip(genome, [i \in 1..Len(other) |-> other[Len(other) + 1 - i]])
    IN  Genome([i \in 1..Len(z) |-> Gene_mate(z[i][1], z[i][2], ch[i])])

\* Genome.mate: Genome(*[s.mate(o) for (s,o) in zip(self,other)]);
\* ch[i] is the outcome of the random choices made at locus i
Genome_mate(genome, other, ch) ==
    LET z == zip(genome, other)
    IN  Genome([i \in 1..Len(z) |-> Gene_mate(z[i][1], z[i][2], ch[i])])

----------------------------------------------------------------------------
(* dict operations on a sequence of <<key, value>> items *)

keys(d) == {d[i][1] : i \in 1..Len(d)}

values(d) == [i \in 1..Len(d) |-> d[i][2]]

IndexOf(d, k) == CHOOSE i \in 1..Len(d) : d[i][1] = k

\* defaultdict(int).__getitem__ as mate uses it: the value, 0 for a key
\* that is not held
Get(d, k) == IF k \in keys(d) THEN d[IndexOf(d, k)][2] ELSE 0

\* d[k] += n on a defaultdict(int): a missing key is inserted at the end
Add(d, k, n) ==
    IF k \in keys(d)
    THEN [d EXCEPT ![IndexOf(d, k)] = <<k, d[IndexOf(d, k)][2] + n>>]
    ELSE Append(d, <<k, n>>)

RECURSIVE sum(_)
\* the builtin sum over a sequence of integers
sum(q) == IF Len(q) = 0 THEN 0 ELSE q[1] + sum(Tail(q))

----------------------------------------------------------------------------
(* weighted_choice *)

\* the running totals appended to cum_weights
cum_weights(weights) ==
    [i \in 1..Len(weights) |-> sum(SubSeq(weights, 1, i))]

RECURSIVE bisect_loop(_, _, _, _)
\* the loop of bisect.bisect (bisect_right), indices 0-based as in Python:
\* while lo < hi: mid = (lo+hi)//2; if x < a[mid]: hi = mid else: lo = mid+1
bisect_loop(a, x, lo, hi) ==
    IF lo < hi
    THEN LET mid == (lo + hi) \div 2
         IN  IF x < a[mid + 1]
             THEN bisect_loop(a, x, lo, mid)
             ELSE bisect_loop(a, x, mid + 1, hi)
    ELSE lo

RECURSIVE bisect_left_loop(_, _, _, _)
\* bisect.bisect_left in place of bisect.bisect:
\* if a[mid] < x: lo = mid+1 else: hi = mid
bisect_left_loop(a, x, lo, hi) ==
    IF lo < hi
    THEN LET mid == (lo + hi) \div 2
         IN  IF a[mid + 1] < x
             THEN bisect_left_loop(a, x, mid + 1, hi)
             ELSE bisect_left_loop(a, x, lo, mid)
    ELSE lo

bisect_left(a, x) == bisect_left_loop(a, x, 0, Len(a))

\* bisect.bisect(a, x), which is bisect_right
bisect(a, x) == bisect_loop(a, x, 0, Len(a))

\* x = random.random() * total lies in [0, total) (in (total, 0] when total
\* is negative, and is 0.0 when total is 0).  Every cumulative weight is an
\* integer, so x < w holds exactly when floor(x) < w: the draw is modelled
\* by floor(x).
RandomDraws(total) ==
    IF total > 0 THEN 0..(total - 1) ELSE total..0

\* the index i = bisect(cum_weights, x) computed by weighted_choice
weighted_choice_index(choices, x) ==
    bisect(cum_weights(values(choices)), x)

\* values[i] raises IndexError when i is len(values)
weighted_choice_raises(choices, x) ==
    weighted_choice_index(choices, x) >= Len(choices)

\* weighted_choice: values[i]
weighted_choice(choices, x) ==
    choices[weighted_choice_index(choices, x) + 1][1]

----------------------------------------------------------------------------
(* Species: construction and statistics *)

\* the assert of Species.__init__: every key is a Genome instance.  An item
\* of the dict handed to the constructor is [isGenome, key, count].
Species_asserts(genome_dict) ==
    \A i \in 1..Len(genome_dict) : genome_dict[i].isGenome

\* defaultdict.__init__(int, genome_dict): the items are copied as they are
Species(genome_dict) ==
    [i \in 1..Len(genome_dict) |->
        <<genome_dict[i].key, genome_dict[i].count>>]

\* the items of a Species, as the dict Species(self) is built from
items(d) ==
    [i \in 1..Len(d) |-> [isGenome |-> TRUE, key |-> d[i][1], count |-> d[i][2]]]

\* Species.population: sum(self.values())
population(d) == sum(values(d))

RECURSIVE gcd(_, _)
gcd(a, b) == IF b = 0 THEN a ELSE gcd(b, a % b)

abs(n) == IF n < 0 THEN 0 - n ELSE n

\* the float cnt/total, total # 0, as the fraction in lowest terms with a
\* positive denominator (distinct fractions of small integers are distinct
\* floats, and -0.0 == 0.0)
Quotient(cnt, total) ==
    LET d == gcd(abs(cnt), abs(total))
        sgn == IF total < 0 THEN 0 - 1 ELSE 1
    IN  <<(sgn * cnt) \div d, abs(total) \div d>>

\* Species.genome_frequencies: { g: cnt/total for g,cnt in self.items() };
\* cnt/total raises ZeroDivisionError when total is 0.0
genome_frequencies(d) ==
    LET total == sum(values(d))
    IN  IF Len(d) > 0 /\ total = 0
        THEN [raised |-> "ZeroDivisionError", value |-> <<>>]
        ELSE [raised |-> "none",
              value |-> [g \in keys(d) |-> Quotient(Get(d, g), total)]]

\* Species.allele_counts: g.allele_count()[locus] raises IndexError for a
\* genome without that locus (locus is 0-based); otherwise every allele of
\* every held genome at the locus is summed, weighted by the genome's count
allele_counts(d, locus) ==
    IF \E g \in keys(d) : locus >= Len(g)
    THEN [raised |-> "IndexError", value |-> <<>>]
    ELSE LET alleles_by_genome ==
                 [g \in keys(d) |-> Genome_allele_count(g)[locus + 1]]
             alleles == UNION {DOMAIN alleles_by_genome[g] : g \in keys(d)}
             weighted(i, al) ==
                 IF al \in DOMAIN alleles_by_genome[d[i][1]]
                 THEN alleles_by_genome[d[i][1]][al] * d[i][2]
                 ELSE 0
         IN  [raised |-> "none",
              value |-> [al \in alleles |->
                           sum([i \in 1..Len(d) |-> weighted(i, al)])]]

\* the values of a mapping with integer keys, in key order
mapping_values(f) ==
    LET RECURSIVE upto(_)
        upto(S) == IF S = {} THEN <<>>
                   ELSE LET m == CHOOSE x \in S : \A y \in S : x <= y
                        IN  <<f[m]>> \o upto(S \ {m})
    IN  upto(DOMAIN f)

\* Species.allele_frequencies: { al: cnt/total for al,cnt in
\* self.allele_counts(locus).items() }
allele_frequencies(d, locus) ==
    LET counts == allele_counts(d, locus)
        total == sum(mapping_values(counts.value))
    IN  IF counts.raised # "none" THEN counts
        ELSE IF DOMAIN counts.value # {} /\ total = 0
        THEN [raised |-> "ZeroDivisionError", value |-> <<>>]
        ELSE [raised |-> "none",
              value |-> [al \in DOMAIN counts.value |->
                           Quotient(counts.value[al], total)]]

----------------------------------------------------------------------------
(* The dicts handed to the constructor *)

\* founder genomes: the two genomes of the repository's test, Genome((1,1))
\* and Genome((2,2)), a heterozygote built from an unsorted pair, and two
\* two-locus genomes (one with different genes at its two loci, one
\* heterozygous at its first)
FounderGenomes ==
    { Genome(<< <<1, 1>> >>), Genome(<< <<2, 2>> >>), Genome(<< <<2, 1>> >>),
      Genome(<< <<1, 1>>, <<2, 2>> >>), Genome(<< <<2, 1>>, <<2, 2>> >>) }

\* the number of individuals a sequence of counts names, a negative count
\* taken absolutely
Size(counts) ==
    sum([i \in 1..Len(counts) |-> IF counts[i] < 0 THEN 0 - counts[i] ELSE counts[i]])

\* the dict literal with these keys and counts, in this order; isGenome[i]
\* tells whether key i is a Genome instance or a plain tuple of that shape
GenomeDict(isGenome, ks, counts) ==
    [i \in 1..Len(ks) |->
        [isGenome |-> isGenome[i], key |-> ks[i], count |-> counts[i]]]

\* a dict has pairwise different keys
Distinct(ks) == \A i, j \in 1..Len(ks) : ks[i] = ks[j] => i = j

----------------------------------------------------------------------------
(* The state machine *)

\* sp = Species(genome_dict): the object exists when the assert passes
Init ==
    /\ \E n \in 0..MaxEntries :
       \E counts \in [1..n -> Counts] :
       \E ks \in [1..n -> FounderGenomes] :
       \E isGenome \in [1..n -> BOOLEAN] :
          /\ Size(counts) <= MaxPop
          /\ Distinct(ks)
          /\ LET genome_dict == GenomeDict(isGenome, ks, counts)
             IN  IF Species_asserts(genome_dict)
                 THEN self = Species(genome_dict) /\ pc = "idle"
                      /\ status = "constructed"
                 ELSE self = <<>> /\ pc = "unconstructed"
                      /\ status = "AssertionError"
    /\ s = <<>> /\ g1 = <<>> /\ g2 = <<>> /\ offspring = <<>>
    /\ pre = <<>> /\ draws = <<>> /\ pairs = 0

\* an exception leaves mate(): its locals are gone, the live dict stays
Raise(exception) ==
    /\ pc' = "idle" /\ status' = exception
    /\ s' = <<>> /\ g1' = <<>> /\ g2' = <<>> /\ offspring' = <<>>
    /\ draws' = <<>>
    /\ UNCHANGED <<self, pre>>

\* mate(), line 103: s = Species(self)
MateBegin ==
    /\ pc = "idle"
    /\ population(self) <= MaxPop
    /\ IF Species_asserts(items(self))
       THEN /\ s' = Species(items(self))
            /\ pc' = "loop" /\ status' = "running"
            /\ g1' = <<>> /\ g2' = <<>> /\ offspring' = <<>>
            /\ pre' = self
            /\ draws' = [g \in keys(self) |-> 0]
            /\ pairs' = 0
            /\ UNCHANGED self
       ELSE /\ Raise("AssertionError") /\ pairs' = 0

\* mate(), lines 104-107: the loop test, g1 = weighted_choice(s.items()),
\* s[g1] -= 1
Draw1 ==
    /\ pc = "loop"
    /\ population(s) >= 2
    /\ \E x \in RandomDraws(population(s)) :
          IF weighted_choice_raises(s, x)
          THEN Raise("IndexError") /\ UNCHANGED pairs
          ELSE LET g == weighted_choice(s, x)
               IN  /\ g1' = g
                   /\ s' = Add(s, g, 0 - 1)
                   /\ draws' = [draws EXCEPT ![g] = @ + 1]
                   /\ pc' = "drawn1"
                   /\ UNCHANGED <<self, status, g2, offspring, pre, pairs>>

\* mate(), lines 109-110: g2 = weighted_choice(s.items()), s[g2] -= 1
Draw2 ==
    /\ pc = "drawn1"
    /\ \E x \in RandomDraws(population(s)) :
          IF weighted_choice_raises(s, x)
          THEN Raise("IndexError") /\ UNCHANGED pairs
          ELSE LET g == weighted_choice(s, x)
               IN  /\ g2' = g
                   /\ s' = Add(s, g, 0 - 1)
                   /\ draws' = [draws EXCEPT ![g] = @ + 1]
                   /\ pairs' = pairs + 1
                   /\ pc' = "drawn2"
                   /\ UNCHANGED <<self, status, g1, offspring, pre>>

\* mate(), lines 112-113: offspring = g1.mate(g2), self[offspring] += 1
Mate ==
    /\ pc = "drawn2"
    /\ IF Genome_mate_asserts(g1, g2)
       THEN \E ch \in [1..Len(g1) -> Picks] :
               /\ offspring' = Genome_mate(g1, g2, ch)
               /\ self' = Add(self, offspring', 1)
               /\ pc' = "loop"
               /\ UNCHANGED <<s, status, g1, g2, pre, draws, pairs>>
       ELSE Raise("AssertionError") /\ UNCHANGED pairs

\* mate(), line 104: the loop test fails and mate() returns
MateReturn ==
    /\ pc = "loop"
    /\ population(s) < 2
    /\ pc' = "idle" /\ status' = "returned"
    /\ s' = <<>> /\ g1' = <<>> /\ g2' = <<>> /\ offspring' = <<>>
    /\ draws' = <<>>
    /\ UNCHANGED <<self, pre, pairs>>

Next == MateBegin \/ Draw1 \/ Draw2 \/ Mate \/ MateReturn

Spec == Init /\ [][Next]_vars

----------------------------------------------------------------------------
(* Properties *)

\* every count of the dict is non-negative
NonNegative(d) == \A i \in 1..Len(d) : d[i][2] >= 0

\* all genomes of the dict have the same number of loci
SameLoci(d) == \A i, j \in 1..Len(d) : Len(d[i][1]) = Len(d[j][1])

\* a mate() call has ended, by returning or by raising
CallEnded ==
    pc = "idle" /\ status \in {"returned", "AssertionError", "IndexError"}

\* a mate() call has raised
CallRaised == pc = "idle" /\ status \in {"AssertionError", "IndexError"}

\* a mate() call has begun (and may have ended): pre holds the live items it
\* began with
Called == pc # "unconstructed" /\ status # "constructed"

\* the locus indices (0-based) every genome of the dict has
ValidLoci(d) == {locus \in 0..1 : \A g \in keys(d) : locus < Len(g)}

\* C1: a mate() call on a Population of total N, all counts non-negative,
\* leaves the total at exactly N + floor(N/2), whatever the random draws
\* and allele choices were (so the total is unchanged for N = 0 and N = 1).
C1_TotalGrowsByHalf ==
    (CallEnded /\ NonNegative(pre))
        => population(self) = population(pre) + population(pre) \div 2

\* the part of C1 the code keeps: the total is N + floor(N/2) whenever the
\* call returns
TotalGrowsByHalfOnReturn ==
    (pc = "idle" /\ status = "returned" /\ NonNegative(pre))
        => population(self) = population(pre) + population(pre) \div 2

\* C2: during a mate() call and after it every genome's live count is at
\* least its count before the call, every genome held before is still held,
\* and between iterations and after the call the live counts exceed the
\* earlier ones by exactly one individual per pair of parents drawn.
C2_OffspringAddedOnePerPair ==
    Called =>
        /\ keys(pre) \subseteq keys(self)
        /\ \A g \in keys(self) : Get(self, g) >= Get(pre, g)
        /\ pc \in {"loop", "idle"}
              => population(self) - population(pre) = pairs

\* the part of C2 the code keeps: live counts never decrease, and at most one
\* individual is added per pair of parents drawn
ParentsNeverReplaced ==
    Called =>
        /\ keys(pre) \subseteq keys(self)
        /\ \A g \in keys(self) : Get(self, g) >= Get(pre, g)
        /\ population(self) - population(pre) <= pairs

\* C3: in a mate() call on a Population with non-negative counts, a genome
\* just drawn had a working-copy count of at least 1 when it was drawn (its
\* count after the decrement is at least 0), no draw fails, no working-copy
\* count is negative, no genome has been drawn more often than its live count
\* at the start of the call, and the working copy holds only the genomes held
\* at the start, so offspring of the round are not drawn in it.
C3_DrawsOnlyAvailableParents ==
    (Called /\ NonNegative(pre)) =>
        /\ status # "IndexError"
        /\ pc = "drawn1" => Get(s, g1) >= 0 /\ g1 \in keys(pre)
        /\ pc = "drawn2" => Get(s, g2) >= 0 /\ g2 \in keys(pre)
        /\ NonNegative(s)
        /\ \A g \in DOMAIN draws : draws[g] <= Get(pre, g)
        /\ status = "running" => keys(s) = keys(pre)

\* witness of C3: next to a genome of count 0, a genome of count 2 has been
\* drawn twice in one iteration, leaving its working-copy count at 0
C3_Witness ==
    /\ pc = "drawn2" /\ NonNegative(pre)
    /\ \E g \in keys(pre) : Get(pre, g) = 0
    /\ g1 = g2 /\ Get(pre, g1) = 2 /\ Get(s, g1) = 0 /\ draws[g1] = 2

\* C4: for distinct alleles a and b, a mate() call on the Population of one
\* Genome((a,a)) and one Genome((b,b)) returns and leaves exactly one each of
\* Genome((a,a)), Genome((a,b)) and Genome((b,b)), total 3, and
\* allele_counts(0) equal to {a: 3, b: 3}.
C4_TwoHomozygotesYieldHeterozygote ==
    \A a, b \in 1..2 :
        (/\ a # b
         /\ CallEnded
         /\ pre = << << << <<a, a>> >>, 1 >>, << << <<b, b>> >>, 1 >> >>)
        => /\ status = "returned"
           /\ population(self) = 3
           /\ keys(self) = { << <<a, a>> >>, << <<b, b>> >>, << <<1, 2>> >> }
           /\ \A g \in keys(self) : Get(self, g) = 1
           /\ allele_counts(self, 0) =
                 [raised |-> "none", value |-> [al \in {a, b} |-> 3]]

\* witness of C4: the test's population {Genome((1,1)): 1, Genome((2,2)): 1}
\* has mated and holds a Genome((1,2))
C4_Witness ==
    /\ pc = "idle" /\ status = "returned"
    /\ pre = << << << <<1, 1>> >>, 1 >>, << << <<2, 2>> >>, 1 >> >>
    /\ Get(self, << <<1, 2>> >>) = 1

\* C5: the offspring of two parents with L loci each has exactly L loci, and
\* its locus i is the sorted pair of one allele of the first parent's locus
\* i and one allele of the second parent's locus i.
C5_OffspringLocusByLocus ==
    (pc = "loop" /\ offspring # <<>> /\ Len(g1) = Len(g2)) =>
        /\ Len(offspring) = Len(g1)
        /\ \A i \in 1..Len(g1) :
              /\ offspring[i][1] <= offspring[i][2]
              /\ \E x \in {g1[i][1], g1[i][2]} :
                 \E y \in {g2[i][1], g2[i][2]} :
                    offspring[i] \in {<<x, y>>, <<y, x>>}

\* witness of C5: two different two-locus parents have an offspring that is
\* neither of them
C5_Witness ==
    /\ pc = "loop" /\ offspring # <<>>
    /\ Len(g1) = 2 /\ Len(g2) = 2 /\ g1 # g2
    /\ offspring # g1 /\ offspring # g2

\* C6: when a mate() call raises, the live mapping is what it was before the
\* call.
C6_NoPartialFailure == CallRaised => self = pre

\* C7: a constructed Population has only non-negative counts and genomes of
\* one common number of loci.
C7_ConstructorValidates ==
    status = "constructed" => NonNegative(self) /\ SameLoci(self)

\* C8: on a Population of total zero (of non-negative counts and genomes of
\* one number of loci), genome_frequencies() and allele_frequencies(locus)
\* raise.
C8_ZeroTotalRaises ==
    (pc = "idle" /\ NonNegative(self) /\ SameLoci(self)
        /\ population(self) = 0) =>
        /\ genome_frequencies(self).raised # "none"
        /\ \A locus \in 0..1 : allele_frequencies(self, locus).raised # "none"

\* C9: on a Population of non-zero total (of non-negative counts and genomes
\* of one number of loci), genome_frequencies() returns a
\* mapping whose keys are exactly the genomes of non-zero count, each mapped
\* to count / total.
C9_FrequenciesOfNonzeroGenomes ==
    (pc = "idle" /\ NonNegative(self) /\ SameLoci(self)
        /\ population(self) # 0) =>
        /\ genome_frequencies(self).raised = "none"
        /\ DOMAIN genome_frequencies(self).value
              = {g \in keys(self) : Get(self, g) # 0}
        /\ \A g \in DOMAIN genome_frequencies(self).value :
              genome_frequencies(self).value[g]
                  = Quotient(Get(self, g), population(self))

\* C10: in every state of a constructed Population, for every locus all its
\* genomes have, the values of allele_counts(locus) add up to twice the total.
C10_TwoAllelesPerIndividual ==
    pc # "unconstructed" =>
        \A locus \in ValidLoci(self) :
            /\ allele_counts(self, locus).raised = "none"
            /\ sum(mapping_values(allele_counts(self, locus).value))
                  = 2 * population(self)

\* witness of C10: after a second mate() call, a Population of at least three
\* genomes, two-locus ones, with offspring of offspring counted
C10_Witness ==
    /\ pc = "idle" /\ status = "returned"
    /\ Len(pre) >= 3 /\ population(self) > population(pre)
    /\ ValidLoci(self) = {0, 1} /\ Len(self) >= 3

====
